---- MODULE Spec2Model ----
(***************************************************************************)
(* Model of bin/openstack_free_usage.py: the per-flavor capacity count     *)
(* count_free_slots_by_flavor and the report driver main.                  *)
(*                                                                         *)
(* Two specifications are given.  SpecFn runs the loop of                  *)
(* count_free_slots_by_flavor node by node over inputs drawn from a        *)
(* bounded domain.  Spec runs main from the service and flavor catalogs    *)
(* to the printed table.                                                   *)
(***************************************************************************)
EXTENDS Integers, Sequences, FiniteSets, TLC

VARIABLES
    \* ---- the frame of one call of count_free_slots_by_flavor ----
    nodes,          \* argument: sequence of compute nodes
    flavor,         \* argument: the flavor record
    ni,             \* position of the for loop (index of the next node)
    count,          \* local: running free total
    max_count,      \* local: running max total
    fpc,            \* "idle" | "loop" | "returned" | "raised"
    \* ---- main ----
    services,       \* db.service_get_all(ctxt)
    catalog,        \* instance_types.get_all_types(ctxt).values()
    filter_flavors, \* argument: names given with -f
    verbose,        \* argument: number of -v
    pc,             \* position of main
    compute_nodes,  \* local list of main
    flavors,        \* local list of main
    fi,             \* position of the final loop over the flavors
    totals,         \* the totals printed when verbose > 0, else <<>>
    warned,         \* hostnames named in a WARNING line
    debugged,       \* hostnames named in a DEBUG line
    dumped,         \* (name, free, max) printed by the verbose > 1 dump
    out,            \* (name, free, max) lines of the final table
    error           \* "none" or the exception that ended the program

fnvars == <<nodes, flavor, ni, count, max_count, fpc>>
vars == <<nodes, flavor, ni, count, max_count, fpc,
          services, catalog, filter_flavors, verbose, pc, compute_nodes,
          flavors, fi, totals, warned, debugged, dumped, out, error>>

(***************************************************************************)
(* Bounds of the model.                                                    *)
(***************************************************************************)
MaxNodes == 2       \* longest node list given to count_free_slots_by_flavor
MaxServices == 2    \* longest list of services
MaxFlavors == 2     \* largest flavor catalog
MaxDelta == 2       \* largest increase tried by the monotonicity checks
QMax == 20          \* largest quotient searched by the reference floor

(***************************************************************************)
(* Python 2 arithmetic and builtins.                                       *)
(***************************************************************************)
\* Faulty variant of PyDiv: the remainder instead of the quotient.
PyDiv_Mod(a, b) == a % b

\* int / int in Python 2 with a positive divisor: the floor of the quotient.
PyDiv(a, b) == a \div b

\* min(a, b, c)
Min3(a, b, c) ==
    IF a <= b /\ a <= c THEN a
    ELSE IF b <= c THEN b
    ELSE c

\* cmp(x, y) on integers
PyCmp(x, y) == IF x < y THEN -1 ELSE IF x > y THEN 1 ELSE 0

\* The divisor of the disk dimension.
DiskDemand(f) == f.root_gb + f.ephemeral_gb

\* Python evaluates the arguments of min() left to right; the first zero
\* divisor raises ZeroDivisionError.
ZeroDivisor(f) == f.vcpus = 0 \/ f.memory_mb = 0 \/ DiskDemand(f) = 0

(***************************************************************************)
(* The body of the loop of count_free_slots_by_flavor.                     *)
(***************************************************************************)
\* Faulty variant of NVms: used minus total in the CPU dimension.
NVms_SignSlip(node, f) ==
    Min3(PyDiv(node.vcpus_used - node.vcpus, f.vcpus),
         PyDiv(node.free_ram_mb, f.memory_mb),
         PyDiv(node.local_gb - node.local_gb_used, DiskDemand(f)))

\* Faulty variant of NVms: total plus used in the CPU dimension.
NVms_AddUsed(node, f) ==
    Min3(PyDiv(node.vcpus + node.vcpus_used, f.vcpus),
         PyDiv(node.free_ram_mb, f.memory_mb),
         PyDiv(node.local_gb - node.local_gb_used, DiskDemand(f)))

\* n_vms (lines 48-52)
NVms(node, f) ==
    Min3(PyDiv(node.vcpus - node.vcpus_used, f.vcpus),
         PyDiv(node.free_ram_mb, f.memory_mb),
         PyDiv(node.local_gb - node.local_gb_used, DiskDemand(f)))

\* Faulty variant of NMaxVms: free_ram_mb in place of memory_mb.
NMaxVms_FreeRam(node, f) ==
    Min3(PyDiv(node.vcpus, f.vcpus),
         PyDiv(node.free_ram_mb, f.memory_mb),
         PyDiv(node.local_gb, DiskDemand(f)))

\* n_maxvms (lines 54-58)
NMaxVms(node, f) ==
    Min3(PyDiv(node.vcpus, f.vcpus),
         PyDiv(node.memory_mb, f.memory_mb),
         PyDiv(node.local_gb, DiskDemand(f)))

\* Faulty variant of AddIfPositive: the test is missing.
AddIfPositive_Always(total, n) == total + n

\* if n > 0: total += n (lines 60-63)
AddIfPositive(total, n) == IF n > 0 THEN total + n ELSE total

\* One iteration: the pair (count, max_count) after the node is processed.
LoopBody(acc, node, f) ==
    <<AddIfPositive(acc[1], NVms(node, f)),
      AddIfPositive(acc[2], NMaxVms(node, f))>>

\* The whole call as a value.  Raises tells whether the call ends with
\* ZeroDivisionError (at its first node); otherwise it returns the pair.
Raises(ns, f) == ns # <<>> /\ ZeroDivisor(f)

RECURSIVE FoldNodes(_, _, _)
FoldNodes(acc, ns, f) ==
    IF ns = <<>> THEN acc
    ELSE FoldNodes(LoopBody(acc, Head(ns), f), Tail(ns), f)

count_free_slots_by_flavor(ns, f) == FoldNodes(<<0, 0>>, ns, f)

(***************************************************************************)
(* Input domains.                                                          *)
(***************************************************************************)
Node(h, v, vu, m, fr, l, lu) ==
    [hypervisor_hostname |-> h, vcpus |-> v, vcpus_used |-> vu,
     memory_mb |-> m, free_ram_mb |-> fr, local_gb |-> l, local_gb_used |-> lu]

Flavor(n, v, m, r, e) ==
    [name |-> n, vcpus |-> v, memory_mb |-> m, root_gb |-> r, ephemeral_gb |-> e]

\* The nodes and the flavor of the documented scenarios.
NodeA == Node(1, 8, 2, 16000, 8000, 100, 40)
NodeB == Node(2, 8, 10, 16000, 8000, 100, 40)
NodeC == Node(3, 16, 6, 32000, 10000, 200, 100)
FlavorA == Flavor("m2", 2, 2000, 10, 0)
FlavorD == Flavor("m0", 2, 0, 10, 0)

ScenarioNodes == {NodeA, NodeB, NodeC}
ScenarioFlavors == {FlavorA, FlavorD, Flavor("m4", 4, 4000, 10, 10)}

\* Small nodes: every sign of every free dimension, free above total, and
\* numerators that the divisors 1 and 2 do not divide.
SmallNodes ==
    { Node(1, 2, 0, 2, 2, 2, 0),      \* idle
      Node(1, 2, 1, 4, 3, 4, 1),      \* partly used
      Node(1, 2, 3, 2, 2, 2, 0),      \* vcpus_used > vcpus
      Node(1, 2, 0, 2, 2, 2, 3),      \* local_gb_used > local_gb
      Node(1, 2, 0, 2, -1, 2, 0),     \* negative free_ram_mb
      Node(1, 1, 4, 3, -3, 1, 4),     \* negative in every dimension
      Node(1, 2, 0, 2, 3, 2, 0),      \* free_ram_mb > memory_mb
      Node(1, 1, -1, 2, 2, 1, -1),    \* negative used counters
      Node(1, 2, 2, 2, 0, 2, 2),      \* nothing free
      Node(1, 4, 1, 5, 4, 6, 1) }     \* larger, partly used

SmallFlavors ==
    { Flavor("f", v, m, d[1], d[2]) :
        v \in 1..2, m \in 1..2, d \in {<<1, 0>>, <<0, 1>>, <<1, 1>>} }
    \cup { Flavor("z", 0, 1, 1, 0), Flavor("z", 1, 0, 1, 0),
           Flavor("z", 1, 1, 0, 0) }

SeqsUpTo(S, n) == UNION { [1..k -> S] : k \in 0..n }

FnInputs ==
    (SeqsUpTo(SmallNodes, MaxNodes) \X SmallFlavors)
    \cup (SeqsUpTo(ScenarioNodes, MaxNodes) \X ScenarioFlavors)

(***************************************************************************)
(* count_free_slots_by_flavor, one node at a time.                         *)
(***************************************************************************)
MainIdle ==
    /\ services = <<>> /\ catalog = <<>> /\ filter_flavors = {}
    /\ verbose = 0 /\ pc = "fn" /\ compute_nodes = <<>> /\ flavors = <<>>
    /\ fi = 1 /\ totals = <<>> /\ warned = {} /\ debugged = {}
    /\ dumped = <<>> /\ out = <<>>

InitFn ==
    /\ \E in \in FnInputs : nodes = in[1] /\ flavor = in[2]
    /\ ni = 1 /\ count = 0 /\ max_count = 0 /\ fpc = "loop"
    /\ error = "none"
    /\ MainIdle

\* for node in nodes: ... (lines 47-63)
FnStep ==
    /\ fpc = "loop" /\ ni <= Len(nodes) /\ ~ZeroDivisor(flavor)
    /\ count' = LoopBody(<<count, max_count>>, nodes[ni], flavor)[1]
    /\ max_count' = LoopBody(<<count, max_count>>, nodes[ni], flavor)[2]
    /\ ni' = ni + 1
    /\ UNCHANGED <<nodes, flavor, fpc, error>>
    /\ UNCHANGED <<services, catalog, filter_flavors, verbose, pc,
                   compute_nodes, flavors, fi, totals, warned, debugged,
                   dumped, out>>

\* the division of lines 48-52 with a zero divisor
FnRaise ==
    /\ fpc = "loop" /\ ni <= Len(nodes) /\ ZeroDivisor(flavor)
    /\ fpc' = "raised"
    /\ error' = "ZeroDivisionError"
    /\ UNCHANGED <<nodes, flavor, ni, count, max_count>>
    /\ UNCHANGED <<services, catalog, filter_flavors, verbose, pc,
                   compute_nodes, flavors, fi, totals, warned, debugged,
                   dumped, out>>

\* return (count, max_count) (line 67)
FnReturn ==
    /\ fpc = "loop" /\ ni > Len(nodes)
    /\ fpc' = "returned"
    /\ UNCHANGED <<nodes, flavor, ni, count, max_count, error>>
    /\ UNCHANGED <<services, catalog, filter_flavors, verbose, pc,
                   compute_nodes, flavors, fi, totals, warned, debugged,
                   dumped, out>>

NextFn == FnStep \/ FnRaise \/ FnReturn

SpecFn == InitFn /\ [][NextFn]_vars

(***************************************************************************)
(* Inputs of main.                                                         *)
(***************************************************************************)
\* A node whose used disk exceeds its total disk.
NodeW == Node(4, 8, 2, 16000, 8000, 100, 140)

MainNodes == {NodeA, NodeW}

\* "m1" ties with "m2" on vcpus; "m0" has memory_mb = 0; "tiny" has no disk
\* (root_gb = ephemeral_gb = 0).
MainFlavors ==
    { FlavorA, Flavor("m1", 2, 1000, 10, 0), Flavor("m4", 4, 4000, 10, 10),
      FlavorD, Flavor("tiny", 1, 512, 0, 0) }

FilterChoices ==
    { {}, {"m2"}, {"m1", "m2"}, {"nosuch"}, {"m4", "nosuch"} }

Services ==
    [disabled : BOOLEAN, compute_node : SeqsUpTo(MainNodes, 1)]

Range(s) == { s[i] : i \in 1..Len(s) }

\* Hostnames are unique: no node is listed twice.
RECURSIVE Concat(_)
Concat(ss) == IF ss = <<>> THEN <<>> ELSE Head(ss) \o Concat(Tail(ss))

DistinctSeq(s) == \A i, j \in 1..Len(s) : i # j => s[i] # s[j]

ServiceLists ==
    { ss \in SeqsUpTo(Services, MaxServices) :
        DistinctSeq(Concat([i \in 1..Len(ss) |-> ss[i].compute_node])) }

\* get_all_types() is a dict keyed by name: names are unique, order arbitrary.
Catalogs ==
    { c \in SeqsUpTo(MainFlavors, MaxFlavors) : DistinctSeq(c) }

(***************************************************************************)
(* The steps of main.                                                      *)
(***************************************************************************)
\* Faulty variant of ServiceNodes: the disabled flag is ignored.
ServiceNodes_All(s) == s.compute_node

\* if not s.disabled: compute_nodes.extend(s.compute_node)
ServiceNodes(s) == IF ~s.disabled THEN s.compute_node ELSE <<>>

RECURSIVE ExtendAll(_)
ExtendAll(ss) ==
    IF ss = <<>> THEN <<>> ELSE ServiceNodes(Head(ss)) \o ExtendAll(Tail(ss))

\* list.sort(cmp=...) is a stable sort: each element is inserted after the
\* elements that do not compare greater than it.
RECURSIVE InsertNode(_, _)
InsertNode(x, s) ==
    IF s = <<>> THEN <<x>>
    ELSE IF PyCmp(Head(s).hypervisor_hostname, x.hypervisor_hostname) <= 0
         THEN <<Head(s)>> \o InsertNode(x, Tail(s))
         ELSE <<x>> \o s

RECURSIVE SortNodes(_)
SortNodes(s) ==
    IF s = <<>> THEN <<>>
    ELSE InsertNode(s[Len(s)], SortNodes(SubSeq(s, 1, Len(s) - 1)))

cmp_flavor(x, y) ==
    IF PyCmp(x.vcpus, y.vcpus) # 0 THEN PyCmp(x.vcpus, y.vcpus)
    ELSE PyCmp(x.memory_mb, y.memory_mb)

RECURSIVE InsertFlavor(_, _)
InsertFlavor(x, s) ==
    IF s = <<>> THEN <<x>>
    ELSE IF cmp_flavor(Head(s), x) <= 0
         THEN <<Head(s)>> \o InsertFlavor(x, Tail(s))
         ELSE <<x>> \o s

RECURSIVE SortFlavors(_)
SortFlavors(s) ==
    IF s = <<>> THEN <<>>
    ELSE InsertFlavor(s[Len(s)], SortFlavors(SubSeq(s, 1, Len(s) - 1)))

\* if filter_flavors: flavors = [f for f in flavors if f['name'] in ...]
InFilter(f, names) == f.name \in names

FilterFlavors(fs, names) ==
    IF names # {} THEN SelectSeq(fs, LAMBDA f : InFilter(f, names)) ELSE fs

RECURSIVE SumField(_, _)
SumField(ns, field) ==
    IF ns = <<>> THEN 0 ELSE Head(ns)[field] + SumField(Tail(ns), field)

\* The numbers of the summary printed when verbose > 0.
Totals(ns) ==
    <<Len(ns), SumField(ns, "vcpus"), SumField(ns, "vcpus_used"),
      SumField(ns, "memory_mb"), SumField(ns, "free_ram_mb"),
      SumField(ns, "local_gb"), SumField(ns, "local_gb_used")>>

Entry(ns, f) ==
    <<f.name, count_free_slots_by_flavor(ns, f)[1],
      count_free_slots_by_flavor(ns, f)[2]>>

\* The lines a loop over the flavors prints before the first call that raises.
RECURSIVE EntriesUntilRaise(_, _)
EntriesUntilRaise(ns, fs) ==
    IF fs = <<>> \/ Raises(ns, Head(fs)) THEN <<>>
    ELSE <<Entry(ns, Head(fs))>> \o EntriesUntilRaise(ns, Tail(fs))

SomeRaises(ns, fs) == \E i \in 1..Len(fs) : Raises(ns, fs[i])

FnIdle ==
    /\ nodes = <<>> /\ flavor = Flavor("", 0, 0, 0, 0)
    /\ ni = 1 /\ count = 0 /\ max_count = 0 /\ fpc = "idle"

Init ==
    /\ services \in ServiceLists
    /\ catalog \in Catalogs
    /\ filter_flavors \in FilterChoices
    /\ verbose \in 0..3
    /\ pc = "start"
    /\ compute_nodes = <<>> /\ flavors = <<>> /\ fi = 1
    /\ totals = <<>> /\ warned = {} /\ debugged = {}
    /\ dumped = <<>> /\ out = <<>>
    /\ error = "none"
    /\ FnIdle

\* lines 70-79: the flavor catalog, the nodes of the enabled services, sorted
CollectNodes ==
    /\ pc = "start"
    /\ flavors' = catalog
    /\ compute_nodes' = SortNodes(ExtendAll(services))
    /\ pc' = "diagnostics"
    /\ UNCHANGED <<services, catalog, filter_flavors, verbose, fi, totals,
                   warned, debugged, dumped, out, error>>
    /\ UNCHANGED fnvars

\* lines 81-100: the summary, the disk warnings and the debug lines
Diagnostics ==
    /\ pc = "diagnostics"
    /\ totals' = IF verbose > 0 THEN Totals(compute_nodes) ELSE <<>>
    /\ warned' = { n.hypervisor_hostname : n \in
                     { m \in Range(compute_nodes) :
                         m.local_gb - m.local_gb_used < 0 /\ verbose # 0 } }
    /\ debugged' = { n.hypervisor_hostname : n \in
                       { m \in Range(compute_nodes) : verbose > 2 } }
    /\ pc' = "select"
    /\ UNCHANGED <<services, catalog, filter_flavors, verbose, compute_nodes,
                   flavors, fi, dumped, out, error>>
    /\ UNCHANGED fnvars

\* lines 102-110: the flavor filter and the sort
SelectFlavors ==
    /\ pc = "select"
    /\ flavors' = SortFlavors(FilterFlavors(flavors, filter_flavors))
    /\ pc' = "dump"
    /\ UNCHANGED <<services, catalog, filter_flavors, verbose, compute_nodes,
                   fi, totals, warned, debugged, dumped, out, error>>
    /\ UNCHANGED fnvars

\* lines 112-121: the per-flavor dump of verbose > 1, every call returning
DumpFlavors ==
    /\ pc = "dump"
    /\ ~(verbose > 1 /\ SomeRaises(compute_nodes, flavors))
    /\ dumped' = IF verbose > 1
                 THEN EntriesUntilRaise(compute_nodes, flavors) ELSE <<>>
    /\ pc' = "flavor_len"
    /\ UNCHANGED <<services, catalog, filter_flavors, verbose, compute_nodes,
                   flavors, fi, totals, warned, debugged, out, error>>
    /\ UNCHANGED fnvars

\* lines 112-121 when a call raises: the exception ends the program
DumpRaise ==
    /\ pc = "dump"
    /\ verbose > 1 /\ SomeRaises(compute_nodes, flavors)
    /\ dumped' = EntriesUntilRaise(compute_nodes, flavors)
    /\ error' = "ZeroDivisionError"
    /\ pc' = "crashed"
    /\ UNCHANGED <<services, catalog, filter_flavors, verbose, compute_nodes,
                   flavors, fi, totals, warned, debugged, out>>
    /\ UNCHANGED fnvars

\* line 123: max() of the name lengths
FlavorLen ==
    /\ pc = "flavor_len"
    /\ flavors # <<>>
    /\ pc' = "report"
    /\ UNCHANGED <<services, catalog, filter_flavors, verbose, compute_nodes,
                   flavors, fi, totals, warned, debugged, dumped, out, error>>
    /\ UNCHANGED fnvars

\* line 123: max() of an empty sequence raises ValueError
FlavorLenRaise ==
    /\ pc = "flavor_len"
    /\ flavors = <<>>
    /\ error' = "ValueError"
    /\ pc' = "crashed"
    /\ UNCHANGED <<services, catalog, filter_flavors, verbose, compute_nodes,
                   flavors, fi, totals, warned, debugged, dumped, out>>
    /\ UNCHANGED fnvars

\* lines 124-126: one line of the table
ReportFlavor ==
    /\ pc = "report" /\ fi <= Len(flavors)
    /\ ~Raises(compute_nodes, flavors[fi])
    /\ out' = Append(out, Entry(compute_nodes, flavors[fi]))
    /\ fi' = fi + 1
    /\ UNCHANGED <<services, catalog, filter_flavors, verbose, pc,
                   compute_nodes, flavors, totals, warned, debugged, dumped,
                   error>>
    /\ UNCHANGED fnvars

\* lines 124-126 when the call raises
ReportRaise ==
    /\ pc = "report" /\ fi <= Len(flavors)
    /\ Raises(compute_nodes, flavors[fi])
    /\ error' = "ZeroDivisionError"
    /\ pc' = "crashed"
    /\ UNCHANGED <<services, catalog, filter_flavors, verbose, compute_nodes,
                   flavors, fi, totals, warned, debugged, dumped, out>>
    /\ UNCHANGED fnvars

\* the end of the loop of line 124
Finish ==
    /\ pc = "report" /\ fi > Len(flavors)
    /\ pc' = "done"
    /\ UNCHANGED <<services, catalog, filter_flavors, verbose, compute_nodes,
                   flavors, fi, totals, warned, debugged, dumped, out, error>>
    /\ UNCHANGED fnvars

Next ==
    \/ CollectNodes
    \/ Diagnostics
    \/ SelectFlavors
    \/ DumpFlavors
    \/ DumpRaise
    \/ FlavorLen
    \/ FlavorLenRaise
    \/ ReportFlavor
    \/ ReportRaise
    \/ Finish

Spec == Init /\ [][Next]_vars

(***************************************************************************)
(* Reference definitions used to state the properties: the floor of a      *)
(* quotient by its defining inequality, and the sum of the clamped fits.   *)
(***************************************************************************)
PositiveFlavor(f) ==
    f.vcpus > 0 /\ f.memory_mb > 0 /\ f.root_gb + f.ephemeral_gb > 0

IsFloor(q, a, b) == q * b <= a /\ a < (q + 1) * b

Floor(a, b) == CHOOSE q \in (-QMax)..QMax : IsFloor(q, a, b)

MinOf(S) == CHOOSE m \in S : \A x \in S : m <= x

Max0(x) == IF x > 0 THEN x ELSE 0

FreeFit(n, f) ==
    MinOf({ Floor(n.vcpus - n.vcpus_used, f.vcpus),
            Floor(n.free_ram_mb, f.memory_mb),
            Floor(n.local_gb - n.local_gb_used, f.root_gb + f.ephemeral_gb) })

MaxFit(n, f) ==
    MinOf({ Floor(n.vcpus, f.vcpus),
            Floor(n.memory_mb, f.memory_mb),
            Floor(n.local_gb, f.root_gb + f.ephemeral_gb) })

RECURSIVE SumFree(_, _)
SumFree(ns, f) ==
    IF ns = <<>> THEN 0 ELSE Max0(FreeFit(Head(ns), f)) + SumFree(Tail(ns), f)

RECURSIVE SumMax(_, _)
SumMax(ns, f) ==
    IF ns = <<>> THEN 0 ELSE Max0(MaxFit(Head(ns), f)) + SumMax(Tail(ns), f)

Returned == fpc = "returned" /\ PositiveFlavor(flavor)

\* Some free dimension of the node is negative.
NegativeFree(n) ==
    \/ n.vcpus - n.vcpus_used < 0
    \/ n.free_ram_mb < 0
    \/ n.local_gb - n.local_gb_used < 0

\* The node's free resources do not exceed its totals.
FreeWithinTotal(n) ==
    /\ 0 <= n.vcpus_used
    /\ n.free_ram_mb <= n.memory_mb
    /\ 0 <= n.local_gb_used

RemoveAt(s, i) == SubSeq(s, 1, i - 1) \o SubSeq(s, i + 1, Len(s))

\* Increases tried: small steps and steps of the size of a flavor's demand.
Deltas == { d * u : d \in 1..MaxDelta, u \in {1, 10, 2000} }

\* The node with one free resource increased.
Raised(n) ==
    UNION { { [n EXCEPT !.free_ram_mb = @ + d],
              [n EXCEPT !.vcpus = @ + d],
              [n EXCEPT !.vcpus_used = @ - d],
              [n EXCEPT !.local_gb = @ + d],
              [n EXCEPT !.local_gb_used = @ - d] } : d \in Deltas }

\* The flavor with one requirement increased.
Harder(f) ==
    UNION { { [f EXCEPT !.vcpus = @ + d],
              [f EXCEPT !.memory_mb = @ + d],
              [f EXCEPT !.root_gb = @ + d],
              [f EXCEPT !.ephemeral_gb = @ + d] } : d \in Deltas }

(***************************************************************************)
(* Properties of count_free_slots_by_flavor (checked under SpecFn).        *)
(***************************************************************************)

\* C1: for a flavor with positive divisors the returned pair is the sum over
\* the nodes of max(0, min of the three floor quotients), for the free and
\* for the total resources; scenario A returns (3, 4) and the two nodes with
\* free fits 3 and 5 return free_count 8.
C1_SumOfClampedFits ==
    Returned =>
        /\ count = SumFree(nodes, flavor)
        /\ max_count = SumMax(nodes, flavor)
        /\ (nodes = <<NodeA>> /\ flavor = FlavorA
                => count = 3 /\ max_count = 4)
        /\ (nodes = <<NodeA, NodeC>> /\ flavor = FlavorA
                => FreeFit(NodeA, FlavorA) = 3 /\ FreeFit(NodeC, FlavorA) = 5
                   /\ count = 8)

C1_Witness ==
    /\ Returned
    /\ nodes = <<NodeA, NodeC>> /\ flavor = FlavorA
    /\ count = 8 /\ max_count = 12

C5_FreeAtMostMax ==
    (fpc \in {"loop", "returned"} /\ PositiveFlavor(flavor)
       /\ \A i \in 1..Len(nodes) : FreeWithinTotal(nodes[i]))
    => count <= max_count

C5_Witness ==
    /\ Returned
    /\ Len(nodes) = 2
    /\ \A i \in 1..Len(nodes) : FreeWithinTotal(nodes[i])
    /\ \E i \in 1..Len(nodes) : NegativeFree(nodes[i])
    /\ 0 < count /\ count < max_count

\* C6: replacing one node by the same node with a larger free_ram_mb, a
\* larger vcpus - vcpus_used or a larger local_gb - local_gb_used never
\* gives a smaller free count.
C6_MonotoneInNode ==
    Returned =>
        \A i \in 1..Len(nodes) : \A n \in Raised(nodes[i]) :
            count_free_slots_by_flavor([nodes EXCEPT ![i] = n], flavor)[1] >= count

C6_Witness ==
    /\ Returned
    /\ \E i \in 1..Len(nodes) :
          /\ NegativeFree(nodes[i])
          /\ \E n \in Raised(nodes[i]) :
               count_free_slots_by_flavor([nodes EXCEPT ![i] = n], flavor)[1] > count

\* C7: a flavor that differs only by a larger vcpus, memory_mb, root_gb or
\* ephemeral_gb never gives a larger free count or a larger max count.
C7_MonotoneInFlavor ==
    Returned =>
        \A f \in Harder(flavor) :
            /\ count_free_slots_by_flavor(nodes, f)[1] <= count
            /\ count_free_slots_by_flavor(nodes, f)[2] <= max_count

C7_Witness ==
    /\ Returned
    /\ \E i \in 1..Len(nodes) : NegativeFree(nodes[i])
    /\ \E f \in Harder(flavor) :
          /\ count_free_slots_by_flavor(nodes, f)[1] < count
          /\ count_free_slots_by_flavor(nodes, f)[2] < max_count

(***************************************************************************)
(* Properties of main (checked under Spec).                                *)
(***************************************************************************)
Ended == pc \in {"done", "crashed"}

\* The nodes of the services that are not disabled, and the hostnames of the
\* nodes of the disabled ones.
EnabledNodes ==
    UNION { Range(s.compute_node) : s \in { t \in Range(services) : ~t.disabled } }

DisabledHosts ==
    { n.hypervisor_hostname : n \in
        UNION { Range(s.compute_node) : s \in { t \in Range(services) : t.disabled } } }

\* The node list main builds when the disabled services are absent.
NodesIfAbsent ==
    SortNodes(ExtendAll(SelectSeq(services, LAMBDA s : ~s.disabled)))

OutNames == { out[k][1] : k \in 1..Len(out) }

\* C8: compute_nodes holds exactly the nodes of the services that are not
\* disabled; every table line, dump line and total is the one of the run
\* with the disabled services absent, and no node of a disabled service is
\* named in a warning or a debug line.
C8_DisabledExcluded ==
    pc # "start" =>
        /\ Range(compute_nodes) = EnabledNodes
        /\ Len(compute_nodes) = Cardinality(EnabledNodes)
        /\ \A i \in 1..Len(compute_nodes) :
              compute_nodes[i].hypervisor_hostname \notin DisabledHosts
        /\ warned \cap DisabledHosts = {}
        /\ debugged \cap DisabledHosts = {}
        /\ totals \in {<<>>, Totals(NodesIfAbsent)}
        /\ \A i \in 1..Len(out) : out[i] = Entry(NodesIfAbsent, flavors[i])
        /\ \A i \in 1..Len(dumped) : dumped[i] = Entry(NodesIfAbsent, flavors[i])

C8_Witness ==
    /\ pc = "done" /\ verbose = 3
    /\ services = <<[disabled |-> TRUE, compute_node |-> <<NodeA>>],
                    [disabled |-> FALSE, compute_node |-> <<NodeW>>]>>
    /\ out = <<<<"m2", 0, 4>>>>
    /\ warned = {4} /\ debugged = {4}

\* C3: a flavor with a zero divisor and a non-empty node list ends in an
\* InvalidFlavorError-class outcome, never in an uncontrolled division by
\* zero, yields no numeric pair, and the other flavors are still reported.
C3_InvalidFlavorError ==
    (Ended /\ compute_nodes # <<>>
       /\ \E i \in 1..Len(flavors) : ZeroDivisor(flavors[i]))
    => /\ error # "ZeroDivisionError"
       /\ \A i \in 1..Len(flavors) :
             IF ZeroDivisor(flavors[i])
             THEN flavors[i].name \notin OutNames
             ELSE flavors[i].name \in OutNames

\* C4: with no enabled compute node, or with no flavor left to report, main
\* runs to completion without an error, and with no node every reported pair
\* is (0, 0).
C4_EmptyInputsValid ==
    /\ (pc \in {"flavor_len", "report", "done", "crashed"}
          /\ (compute_nodes = <<>> \/ flavors = <<>>))
       => pc # "crashed" /\ error = "none"
    /\ (compute_nodes = <<>>
          => \A k \in 1..Len(out) : out[k][2] = 0 /\ out[k][3] = 0)

\* C9: the table has exactly one line per selected flavor (stated here for
\* the flavors with positive divisors, which the flavor catalog is assumed to
\* hold), in ascending order of vcpus and then memory_mb, each with the
\* counts of its flavor over the enabled nodes.
C9_OneOrderedLinePerFlavor ==
    /\ \A i \in 1..Len(out) :
          /\ out[i][1] = flavors[i].name
          /\ out[i][2] = SumFree(compute_nodes, flavors[i])
          /\ out[i][3] = SumMax(compute_nodes, flavors[i])
    /\ \A i \in 1..(Len(out) - 1) :
          \/ flavors[i].vcpus < flavors[i + 1].vcpus
          \/ /\ flavors[i].vcpus = flavors[i + 1].vcpus
             /\ flavors[i].memory_mb <= flavors[i + 1].memory_mb
    /\ Ended =>
          \A i \in 1..Len(flavors) :
              PositiveFlavor(flavors[i]) =>
                  Cardinality({ k \in 1..Len(out) : out[k][1] = flavors[i].name }) = 1

\* C10: with no name given every catalog flavor is reported; otherwise the
\* reported flavors are exactly the catalog flavors whose name is given
\* (stated here for the flavors with positive divisors); the counts of a
\* reported flavor do not depend on the names given.
Selected ==
    { g \in Range(catalog) : filter_flavors = {} \/ g.name \in filter_flavors }

C10_FlavorSelection ==
    Ended =>
        /\ OutNames \subseteq { f.name : f \in Selected }
        /\ \A f \in Selected : PositiveFlavor(f) => f.name \in OutNames
        /\ \A k \in 1..Len(out) : \E f \in Selected :
              /\ ~Raises(compute_nodes, f)
              /\ out[k] = Entry(compute_nodes, f)

====
